---- MODULE Spec2Model ----
(***************************************************************************)
(* Deferred Web Push delivery of the HerDay period tracker: the schedule   *)
(* routes of the push server (POST/DELETE /api/schedule), the table        *)
(* push_schedules, and the cron sweep processDueNotifications, which       *)
(* sends every due row through sendPushNotification and then deletes it.   *)
(*                                                                         *)
(* Each HTTP handler runs one SQL statement, so it is one atomic step.  A  *)
(* sweep awaits between its SELECT, every send and every DELETE, so its    *)
(* steps interleave with the handlers and with another sweep.              *)
(***************************************************************************)
EXTENDS Integers, Sequences, FiniteSets, TLC

\* ------------------------------------------------------------- bounds ----

\* The server clock (Date.now(), milliseconds) runs from StartMs to
\* StartMs + MaxTicks * TickMs.
MaxTicks == 1

\* How many times a sweep may be killed by the runtime (CrashSpec only).
MaxCrashes == 1

\* The longest payload string handed to the encryptor on its own, in code
\* points, and how many values the random source gives out (two per
\* encryption).
MaxLen == 2

MaxDraws == 6

\* Date.now() is in milliseconds, the table's notify_at in seconds.
MsPerSecond == 1000

StartMs == 1 * MsPerSecond

TickMs == MsPerSecond

MaxClockMs == StartMs + MaxTicks * TickMs

\* ------------------------------------------------------ input domains ----

Endpoints == {"e1", "e2"}

Sweeps == {1, 2}

\* A notifyAt of a request body: absent, a string that is no date, or a date
\* (given by its epoch milliseconds).
NoNotifyAt == [kind |-> "missing", ms |-> 0]

BadNotifyAt == [kind |-> "invalid", ms |-> 0]

DateAt(ms) == [kind |-> "date", ms |-> ms]

\* Dates that are accepted (1.5 s and 2 s after the epoch, the clock starting
\* at 1 s) and notifyAt values that are not: a date before the epoch, a date
\* within its first second, a string that is no date, none.
GoodNotifyAts == {DateAt(1500), DateAt(2000)}

PoorNotifyAts == {NoNotifyAt, BadNotifyAt, DateAt(-500), DateAt(999)}

\* What a client sends besides endpoint and notifyAt.  "" is an absent (or
\* empty, equally falsy) field; "p?" is a p256dh that is no P-256 point.
PayloadA == [p256dh |-> "pA", auth |-> "aA", title |-> "tA", body |-> "bA"]

PayloadB == [p256dh |-> "p?", auth |-> "aB", title |-> "", body |-> ""]

Payloads == {PayloadA, PayloadB}

MkRequest(e, p, n) ==
    [endpoint |-> e, p256dh |-> p.p256dh, auth |-> p.auth,
     notifyAt |-> n, title |-> p.title, body |-> p.body]

WellFormed == { MkRequest(e, p, n) : e \in Endpoints, p \in Payloads, n \in GoodNotifyAts }

SomeRequest == MkRequest("e1", PayloadA, DateAt(2000))

\* Requests with a part of the subscription missing, or a poor notifyAt.
Incomplete ==
    { [SomeRequest EXCEPT !.endpoint = ""],
      [SomeRequest EXCEPT !.p256dh = ""],
      [SomeRequest EXCEPT !.auth = ""] }
    \cup { [SomeRequest EXCEPT !.notifyAt = n] : n \in PoorNotifyAts }

ScheduleRequests == WellFormed \cup Incomplete

\* Endpoints a DELETE may name: a stored one, or none at all.
DeleteEndpoints == Endpoints \cup {""}

VARIABLES
    push_schedules,   \* the table: a set of rows
    clock,            \* Date.now() of the server, in milliseconds
    last,             \* the last HTTP request handled and its status
    pc,               \* per sweep: "idle", "send", "wait", "delete", "done", "killed"
    now,              \* per sweep: the `now` it computed (seconds)
    dueRows,          \* per sweep: the snapshot its SELECT returned
    idx,              \* per sweep: position of the for loop in dueRows
    log,              \* per sweep: what it did so far
    crashes,          \* how many sweeps were killed so far
    rng,              \* how many values the random source has given out
    call,             \* the last call of the sender examined on its own
    used,             \* the salts and ephemeral keys its calls have used
    permission,       \* the device: Notification.permission as the hook holds it
    subscriptionRef,  \* the device: the push subscription the hook holds, or none
    settings,         \* the device: UserSettings in localStorage
    entries,          \* the device: the logged periods in localStorage
    requests,         \* every request the device has sent to the push server
    ret               \* the last operation of the device and what it sent

vars ==
    <<push_schedules, clock, last, pc, now, dueRows, idx, log, crashes, rng, call, used,
      permission, subscriptionRef, settings, entries, requests, ret>>

senderVars == <<rng, call, used>>

clientVars == <<permission, subscriptionRef, settings, entries, requests, ret>>

sweepVars == <<pc, now, dueRows, idx, log, crashes>>

TypeOK ==
    /\ clock \in StartMs..MaxClockMs
    /\ pc \in [Sweeps -> {"idle", "send", "wait", "delete", "done", "killed"}]
    /\ idx \in [Sweeps -> 0..3]
    /\ crashes \in 0..MaxCrashes

\* --------------------------------------------------- POST /api/schedule ----

\* JavaScript truthiness of a string field: absent and "" are both falsy.
Truthy(s) == s # ""

\* new Date(notifyAt).getTime() is NaN when the string is no date.
IsNaN(n) == n.kind # "date"

\* Seconds rounded up, Math.ceil for Math.floor.
notifyAtUnixCeil(n) == -((-n.ms) \div MsPerSecond)

\* Math.floor(new Date(notifyAt).getTime() / 1000)
notifyAtUnix(n) == n.ms \div MsPerSecond

\* A digest under which the two endpoints collide.
Sha256HexColliding(endpoint) ==
    CASE endpoint = "e1" -> "1f3a"
      [] endpoint = "e2" -> "1f3a"
      [] OTHER -> "e3b0"

\* Hex SHA-256 of the endpoint, cut to 64 characters (the whole digest).  Over
\* the endpoints of the model the digest has no collision.
Sha256Hex(endpoint) ==
    CASE endpoint = "e1" -> "1f3a"
      [] endpoint = "e2" -> "c07d"
      [] OTHER -> "e3b0"

DefaultTitle == "HerDay Reminder"

DefaultBody == "Time to check your cycle!"

\* a || b
OrElse(a, b) == IF Truthy(a) THEN a ELSE b

\* A validation that forgets keys.auth.
ScheduleStatusNoAuthCheck(req) ==
    IF ~Truthy(req.endpoint) \/ ~Truthy(req.p256dh) THEN 400
    ELSE IF req.notifyAt.kind = "missing" THEN 400
    ELSE IF IsNaN(req.notifyAt) \/ notifyAtUnix(req.notifyAt) <= 0 THEN 400
    ELSE 200

\* The status the handler answers with.
ScheduleStatus(req) ==
    IF ~Truthy(req.endpoint) \/ ~Truthy(req.p256dh) \/ ~Truthy(req.auth) THEN 400
    ELSE IF req.notifyAt.kind = "missing" THEN 400
    ELSE IF IsNaN(req.notifyAt) \/ notifyAtUnix(req.notifyAt) <= 0 THEN 400
    ELSE 200

\* A row whose id is the hash of the subscription's key, not of its endpoint.
NewRowIdOfKey(req) ==
    [id        |-> Sha256Hex(req.p256dh),
     endpoint  |-> req.endpoint,
     p256dh    |-> req.p256dh,
     auth      |-> req.auth,
     notify_at |-> notifyAtUnix(req.notifyAt),
     title     |-> OrElse(req.title, DefaultTitle),
     body      |-> OrElse(req.body, DefaultBody)]

\* The values bound to the INSERT.  created_at is not bound: the table sets it
\* and no handler reads it, so the rows of the model leave it out.
NewRow(req) ==
    [id        |-> Sha256Hex(req.endpoint),
     endpoint  |-> req.endpoint,
     p256dh    |-> req.p256dh,
     auth      |-> req.auth,
     notify_at |-> notifyAtUnix(req.notifyAt),
     title     |-> OrElse(req.title, DefaultTitle),
     body      |-> OrElse(req.body, DefaultBody)]

\* An INSERT that ignores the conflict on id instead of replacing.
InsertKeepingOld(table, row) == table \cup {row}

\* An upsert that updates notify_at of an existing row and keeps its other columns.
UpdateNotifyAtOnly(table, row) ==
    IF \E r \in table : r.id = row.id
    THEN { IF r.id = row.id THEN [r EXCEPT !.notify_at = row.notify_at] ELSE r : r \in table }
    ELSE table \cup {row}

\* INSERT OR REPLACE on a table whose only uniqueness constraint is the
\* PRIMARY KEY id: rows in conflict on id are deleted, then the row is added.
InsertOrReplace(table, row) == { r \in table : r.id # row.id } \cup {row}

HasRow(table, endpoint) == \E r \in table : r.endpoint = endpoint

PostSchedule(req) ==
    /\ push_schedules' =
          IF ScheduleStatus(req) = 200
          THEN InsertOrReplace(push_schedules, NewRow(req))
          ELSE push_schedules
    /\ last' = [op |-> "schedule", status |-> ScheduleStatus(req),
                hadRow |-> HasRow(push_schedules, req.endpoint),
                changed |-> push_schedules' # push_schedules]
    /\ UNCHANGED <<clock, sweepVars, senderVars, clientVars>>

\* ------------------------------------------------- DELETE /api/schedule ----

DeleteStatus(endpoint) == IF ~Truthy(endpoint) THEN 400 ELSE 200

\* A DELETE whose WHERE clause was lost.
DeleteEveryRow(table, endpoint) == {}

\* DELETE FROM push_schedules WHERE endpoint = ?
DeleteWhereEndpoint(table, endpoint) == { r \in table : r.endpoint # endpoint }

DeleteSchedule(endpoint) ==
    /\ push_schedules' =
          IF DeleteStatus(endpoint) = 200
          THEN DeleteWhereEndpoint(push_schedules, endpoint)
          ELSE push_schedules
    /\ last' = [op |-> "delete", status |-> DeleteStatus(endpoint),
                hadRow |-> HasRow(push_schedules, endpoint),
                changed |-> push_schedules' # push_schedules]
    /\ UNCHANGED <<clock, sweepVars, senderVars, clientVars>>

\* ------------------------------------------ POST /api/schedule/status ----

StatusStatus(endpoint) == IF ~Truthy(endpoint) THEN 400 ELSE 200

\* new Date(seconds * 1000).toISOString(): the date of that millisecond.
ToISOString(seconds) == DateAt(seconds * MsPerSecond)

\* What POST /api/schedule answers: {ok: true, notifyAt: new
\* Date(notifyAtUnix * 1000).toISOString()}, or an error with status 400.
ScheduleResponse(req) ==
    IF ScheduleStatus(req) = 200
    THEN [ok |-> TRUE, notifyAt |-> ToISOString(notifyAtUnix(req.notifyAt))]
    ELSE [ok |-> FALSE, notifyAt |-> NoNotifyAt]

NotScheduled == [scheduled |-> FALSE, notifyAt |-> NoNotifyAt, title |-> "", body |-> ""]

Scheduled(row) ==
    [scheduled |-> TRUE, notifyAt |-> ToISOString(row.notify_at),
     title |-> row.title, body |-> row.body]

\* A lookup that binds the endpoint to the id column.
StatusResponsesById(table, endpoint) ==
    IF { r \in table : r.id = endpoint } = {}
    THEN {NotScheduled}
    ELSE { Scheduled(r) : r \in { r \in table : r.id = endpoint } }

\* The bodies the handler may answer with: SELECT * ... WHERE endpoint = ?
\* LIMIT 1 gives any one of the matching rows, or none.
StatusResponses(table, endpoint) ==
    IF { r \in table : r.endpoint = endpoint } = {}
    THEN {NotScheduled}
    ELSE { Scheduled(r) : r \in { r \in table : r.endpoint = endpoint } }

\* A status handler that removes the row it reports.
PostStatusPurging(endpoint) ==
    /\ push_schedules' = DeleteWhereEndpoint(push_schedules, endpoint)
    /\ last' = [op |-> "status", status |-> StatusStatus(endpoint),
                hadRow |-> HasRow(push_schedules, endpoint),
                changed |-> FALSE]
    /\ UNCHANGED <<clock, sweepVars, senderVars, clientVars>>

PostStatus(endpoint) ==
    /\ last' = [op |-> "status", status |-> StatusStatus(endpoint),
                hadRow |-> HasRow(push_schedules, endpoint),
                changed |-> FALSE]
    /\ UNCHANGED <<push_schedules, clock, sweepVars, senderVars, clientVars>>

\* ------------------------------------------------------------- clock ----

Tick ==
    /\ clock + TickMs <= MaxClockMs
    /\ clock' = clock + TickMs
    /\ UNCHANGED <<push_schedules, last, sweepVars, senderVars, clientVars>>

\* ------------------------------------------- sendPushNotification ----

\* crypto.subtle.importKey rejects a p256dh that is no uncompressed P-256
\* point, so encryptPayload throws before any HTTP request is made.
ValidP256dh(p256dh) == p256dh = "pA"

\* What one call of sendPushNotification can end in, once fetch was called:
\* fetch rejects (network error), or the push service answers with a status.
Statuses == {201, 410}

Threw(what) == [threw |-> what, success |-> FALSE, status |-> 0]

\* A sender that takes 300 for a success.
SendResultUpTo300(status) ==
    [threw |-> "", success |-> (status >= 200 /\ status <= 300), status |-> status]

SendResult(status) ==
    [threw |-> "", success |-> (status >= 200 /\ status < 300), status |-> status]

FetchResults == {Threw("network")} \cup { SendResult(st) : st \in Statuses }

\* Answers at the edges of the 2xx range.
EdgeStatuses == {199, 200, 299, 300}

EdgeResults == {Threw("network")} \cup { SendResult(st) : st \in EdgeStatuses }

\* The message handed to the sender for a row.
PushMessage(row) ==
    [endpoint |-> row.endpoint, p256dh |-> row.p256dh, auth |-> row.auth,
     title |-> row.title, body |-> row.body, url |-> "/"]

\* ------------------------------------------------------ createVapidJwt ----

\* env.VAPID_PUBLIC_KEY, env.VAPID_PRIVATE_KEY, env.VAPID_EMAIL
Vapid == [publicKey |-> "vapidPublic", privateKey |-> "vapidPrivate", email |-> "mailto:admin@herday.example"]

\* new URL(endpoint): the URLs the endpoints of the model stand for.
Url(endpoint) ==
    CASE endpoint = "e1" ->
            [protocol |-> "https:", host |-> "fcm.example", pathname |-> "/send/1", search |-> ""]
      [] endpoint = "e2" ->
            [protocol |-> "https:", host |-> "push.example:8443", pathname |-> "/wpush/2", search |-> "?v=2"]
      [] OTHER ->
            [protocol |-> "https:", host |-> "other.example", pathname |-> "/", search |-> ""]

\* An audience that is the whole endpoint.
AudienceWholeUrl(endpoint) ==
    <<Url(endpoint).protocol, "//", Url(endpoint).host, Url(endpoint).pathname, Url(endpoint).search>>

\* `${url.protocol}//${url.host}`, as the pieces of the template.
Audience(endpoint) == <<Url(endpoint).protocol, "//", Url(endpoint).host>>

\* 12 * 60 * 60
JwtLifetime == 12 * 60 * 60

\* The token and the two header values, built at clock value nowMs.  The
\* three segments of the token are kept as what they encode; the signature as
\* what was signed, with which key.
CreateVapidJwt(audience, vapid, nowMs) ==
    LET header == [typ |-> "JWT", alg |-> "ES256"]
        payload == [aud |-> audience,
                    exp |-> (nowMs \div MsPerSecond) + JwtLifetime,
                    sub |-> vapid.email]
        signature == [alg |-> "ECDSA/SHA-256", key |-> vapid.privateKey,
                      over |-> <<header, payload>>]
    IN  [authorization |-> [scheme |-> "vapid",
                            t |-> [header |-> header, payload |-> payload, signature |-> signature],
                            k |-> vapid.publicKey],
         cryptoKey |-> [p256ecdsa |-> vapid.publicKey]]

\* ------------------------------------------------------ encryptPayload ----

\* Strings are sequences of code points; TextEncoder.encode gives one byte
\* for a code point below 128 and two for one below 2048.
RECURSIVE Utf8Range(_, _, _)
Utf8Range(str, lo, hi) ==
    IF lo > hi THEN <<>>
    ELSE IF lo = hi
         THEN (IF str[lo] < 128
               THEN <<str[lo]>>
               ELSE <<192 + (str[lo] \div 64), 128 + (str[lo] % 64)>>)
         ELSE Utf8Range(str, lo, (lo + hi) \div 2) \o Utf8Range(str, ((lo + hi) \div 2) + 1, hi)

Utf8(str) == Utf8Range(str, 1, Len(str))

\* concatUint8Arrays(...arrays)
RECURSIVE ConcatUint8Arrays(_)
ConcatUint8Arrays(arrays) ==
    IF arrays = <<>> THEN <<>> ELSE Head(arrays) \o ConcatUint8Arrays(Tail(arrays))

\* The primitives of crypto.subtle, as small stand-ins with the algebra of the
\* real ones: a digest of a byte string that depends on every byte and its
\* place, Diffie-Hellman in the integers modulo a prime for ECDH on P-256, a
\* keyed expansion for HKDF and an additive stream with a tag for AES-GCM.
RECURSIVE DigestRange(_, _, _)
DigestRange(bytes, lo, hi) ==
    IF lo > hi THEN 0
    ELSE IF lo = hi THEN (bytes[lo] + 1) * lo
         ELSE DigestRange(bytes, lo, (lo + hi) \div 2) + DigestRange(bytes, ((lo + hi) \div 2) + 1, hi)

Digest(bytes, h) == (h * 31 + DigestRange(bytes, 1, Len(bytes))) % 65521

GroupPrime == 251

GroupGenerator == 6

RECURSIVE ModExp(_, _)
ModExp(b, e) == IF e = 0 THEN 1 ELSE (b * ModExp(b, e - 1)) % GroupPrime

\* exportKey("raw", publicKey): 65 bytes, 0x04 and the two coordinates.
PointLength == 65

RawPoint(point) == <<4>> \o [i \in 1..(PointLength - 1) |-> (point * i) % 256]

\* deriveBits({name: "ECDH", public}, privateKey, 256)
EcdhBits(privateScalar, point) ==
    LET shared == ModExp(point, privateScalar)
    IN  [i \in 1..32 |-> (shared + i) % 256] \o <<>>

\* hkdf(salt, ikm, info, length)
Hkdf(salt, ikm, info, length) ==
    LET prk == Digest(salt, 1) * 7 + Digest(ikm, 2) * 13 + Digest(info, 3) * 17
    IN  [i \in 1..length |-> (prk + i * 5) % 256] \o <<>>

TagLength == 16

\* crypto.subtle.encrypt({name: "AES-GCM", iv}, key, data): the data under the
\* key stream, then the 16 bytes of the tag.
AesGcmEncrypt(key, iv, data) ==
    LET mac == Digest(data, 4) + Digest(key, 5) + Digest(iv, 6)
    IN  [i \in 1..Len(data) |->
            (data[i] + key[((i - 1) % Len(key)) + 1] + iv[((i - 1) % Len(iv)) + 1]) % 256]
        \o [j \in 1..TagLength |-> (mac + j) % 256]

\* The subscriber's key pair behind the p256dh "pA" (the private part stays in
\* the browser) and the bytes base64urlToUint8Array gives for the stored keys.
SubscriberPrivate == 7

P256dhBytes(p256dh) ==
    IF p256dh = "pA" THEN RawPoint(ModExp(GroupGenerator, SubscriberPrivate)) ELSE <<4, 0, 0>>

AuthBytes(auth) ==
    (IF auth = "aA" THEN [i \in 1..16 |-> 100 + i] ELSE [i \in 1..16 |-> 200 + i]) \o <<>>

\* importKey("raw", p256dhBytes, ECDH P-256): the point the bytes encode.
ImportPoint(raw) == raw[2]

\* A key pair generated once and kept for every message.
CachedScalar(n) == 10 + 1

\* What the random source gives at its n-th draw: a private scalar to
\* generateKey, 16 bytes to getRandomValues.  No two draws give the same.
RandomScalar(n) == 10 + n

SaltLength == 16

RandomSalt(n) == [i \in 1..SaltLength |-> (n * 37 + i * 11) % 256] \o <<>>

\* The label without its closing NUL.
WebPushInfoNoNul == <<87, 101, 98, 80, 117, 115, 104, 58, 32, 105, 110, 102, 111>>

\* encoder.encode("WebPush: info\0") and the two content-encoding labels.
WebPushInfo == <<87, 101, 98, 80, 117, 115, 104, 58, 32, 105, 110, 102, 111, 0>>

CekInfo == <<67, 111, 110, 116, 101, 110, 116, 45, 69, 110, 99, 111, 100, 105, 110, 103, 58, 32, 97, 101, 115, 49, 50, 56, 103, 99, 109, 0>>

NonceInfo == <<67, 111, 110, 116, 101, 110, 116, 45, 69, 110, 99, 111, 100, 105, 110, 103, 58, 32, 110, 111, 110, 99, 101, 0>>

\* const rs = 4096
RecordSize == 4096

\* A DataView written little-endian.
Uint32BytesLittleEndian(n) ==
    <<n % 256, (n \div 256) % 256, (n \div 65536) % 256, (n \div 16777216) % 256>>

\* new DataView(rsBytes.buffer).setUint32(0, rs): big-endian.
Uint32Bytes(n) ==
    <<(n \div 16777216) % 256, (n \div 65536) % 256, (n \div 256) % 256, n % 256>>

EncryptThrew == [threw |-> TRUE, encrypted |-> <<>>, salt |-> <<>>, localPublicKey |-> <<>>, draws |-> 0]

\* encryptPayload(subscription, payload) when n values of the random source
\* are used up: throws on a p256dh that is no point, else draws the key pair,
\* then the salt, and returns the record and its parts.
EncryptPayload(subscription, payload, n) ==
    IF ~ValidP256dh(subscription.keys.p256dh) THEN EncryptThrew
    ELSE
    LET plaintext == Utf8(payload)
        p256dhBytes == P256dhBytes(subscription.keys.p256dh)
        authBytes == AuthBytes(subscription.keys.auth)
        localPrivate == RandomScalar(n + 1)
        localPublicKeyRaw == RawPoint(ModExp(GroupGenerator, localPrivate))
        sharedSecret == EcdhBits(localPrivate, ImportPoint(p256dhBytes))
        salt == RandomSalt(n + 2)
        ikmInfo == ConcatUint8Arrays(<<WebPushInfo, p256dhBytes, localPublicKeyRaw>>)
        ikm == Hkdf(authBytes, sharedSecret, ikmInfo, 32)
        cek == Hkdf(salt, ikm, CekInfo, 16)
        nonce == Hkdf(salt, ikm, NonceInfo, 12)
        paddedPlaintext == ConcatUint8Arrays(<<plaintext, <<2>> >>)
        ciphertext == AesGcmEncrypt(cek, nonce, paddedPlaintext)
        encrypted == ConcatUint8Arrays(<<salt, Uint32Bytes(RecordSize),
                                         <<Len(localPublicKeyRaw)>>, localPublicKeyRaw, ciphertext>>)
    IN  [threw |-> FALSE, encrypted |-> encrypted, salt |-> salt,
         localPublicKey |-> localPublicKeyRaw, draws |-> 2]

\* The code points of the strings of the model.
Chars(s) ==
    CASE s = "tA" -> <<116, 65>>
      [] s = "bA" -> <<98, 65>>
      [] s = "/" -> <<47>>
      [] s = DefaultTitle -> <<72, 101, 114, 68, 97, 121, 32, 82, 101, 109, 105, 110, 100, 101, 114>>
      [] s = DefaultBody -> <<84, 105, 109, 101, 32, 116, 111, 32, 99, 104, 101, 99, 107, 32, 121, 111, 117, 114, 32, 99, 121, 99, 108, 101, 33>>
      [] OTHER -> <<>>

\* JSON.stringify({title, body, url}) for strings that need no escape.
JsonStringify(payload) ==
    <<123, 34, 116, 105, 116, 108, 101, 34, 58, 34>> \o Chars(payload.title)
    \o <<34, 44, 34, 98, 111, 100, 121, 34, 58, 34>> \o Chars(payload.body)
    \o <<34, 44, 34, 117, 114, 108, 34, 58, 34>> \o Chars(payload.url) \o <<34, 125>>

\* The request handed to fetch.
PushRequest(subscription, jwt, encrypted) ==
    [url |-> subscription.endpoint, method |-> "POST",
     headers |-> [Authorization |-> jwt.authorization, CryptoKey |-> jwt.cryptoKey,
                  ContentType |-> "application/octet-stream", ContentEncoding |-> "aes128gcm",
                  TTL |-> "86400", Urgency |-> "normal"],
     body |-> encrypted]

NoJwt == [authorization |-> <<>>, cryptoKey |-> <<>>]

NoRequest == [url |-> "", method |-> "", headers |-> <<>>, body |-> <<>>]

\* ---------------------------------------- the sender examined on its own ----

\* The subscriptions and payloads the sender is called with, and the payload
\* strings the encryptor is called with: every string of at most MaxLen code
\* points over "A" and "e acute".
Subscriptions ==
    { [endpoint |-> "e1", keys |-> [p256dh |-> "pA", auth |-> "aA"]],
      [endpoint |-> "e2", keys |-> [p256dh |-> "p?", auth |-> "aB"]] }

PushPayloads == { [title |-> "tA", body |-> "bA", url |-> "/"] }

Alphabet == {65, 233}

PayloadStrings == UNION { [1..n -> Alphabet] : n \in 0..MaxLen }

NoCall ==
    [fn |-> "none", subscription |-> [endpoint |-> "", keys |-> [p256dh |-> "", auth |-> ""]],
     plaintext |-> <<>>, at |-> 0, request |-> NoRequest, jwt |-> NoJwt,
     out |-> EncryptThrew, result |-> Threw(""), again |-> FALSE]

\* The call encrypts what the call before it encrypted, to the same subscriber.
Again(subscription, plaintext, out) ==
    /\ ~out.threw /\ ~call.out.threw
    /\ call.subscription = subscription
    /\ call.plaintext = plaintext

\* The salt and the ephemeral key of an encryption, if it made one.
UsedBy(out) ==
    IF out.threw THEN {} ELSE {[salt |-> out.salt, localPublicKey |-> out.localPublicKey]}

\* One call of encryptPayload.
CallEncryptPayload(subscription, payload) ==
    LET out == EncryptPayload(subscription, payload, rng)
    IN  /\ rng + out.draws <= MaxDraws
        /\ rng' = rng + out.draws
        /\ call' = [NoCall EXCEPT !.fn = "encryptPayload", !.subscription = subscription,
                                  !.plaintext = Utf8(payload), !.out = out,
                                  !.again = Again(subscription, Utf8(payload), out)]
        /\ used' = used \cup UsedBy(out)
        /\ UNCHANGED <<push_schedules, clock, last, sweepVars, clientVars>>

\* One call of sendPushNotification: the audience, the token, the encrypted
\* body, then the POST and what comes of it.
SendPushNotification(subscription, payload) ==
    LET jwt == CreateVapidJwt(Audience(subscription.endpoint), Vapid, clock)
        out == EncryptPayload(subscription, JsonStringify(payload), rng)
        sent == [NoCall EXCEPT !.fn = "sendPushNotification", !.subscription = subscription,
                               !.plaintext = Utf8(JsonStringify(payload)), !.at = clock,
                               !.jwt = jwt, !.out = out,
                               !.again = Again(subscription, Utf8(JsonStringify(payload)), out)]
    IN  /\ rng + out.draws <= MaxDraws
        /\ rng' = rng + out.draws
        /\ IF out.threw
           THEN call' = [sent EXCEPT !.result = Threw("key")]
           ELSE \E result \in FetchResults :
                   call' = [sent EXCEPT !.request = PushRequest(subscription, jwt, out.encrypted),
                                        !.result = result]
        /\ used' = used \cup UsedBy(out)
        /\ UNCHANGED <<push_schedules, clock, last, sweepVars, clientVars>>

\* ------------------------------------------ processDueNotifications ----

\* Every order in which a SELECT without ORDER BY may return the rows S.
Orderings(S) ==
    { f \in [1..Cardinality(S) -> S] : \A i, j \in DOMAIN f : f[i] = f[j] => i = j }

\* A SELECT whose WHERE clause was lost.
DueIgnoringTime(table, t) == table

\* A SELECT with < for <=.
DueStrictlyBefore(table, t) == { r \in table : r.notify_at < t }

\* SELECT * FROM push_schedules WHERE notify_at <= ?
DueBefore(table, t) == { r \in table : r.notify_at <= t }

\* A DELETE of every row that is not after the row of this id.
DeleteUpToRow(table, id) ==
    { r \in table : \A d \in table : d.id = id => r.notify_at > d.notify_at }

\* DELETE FROM push_schedules WHERE id = ?
DeleteWhereId(table, id) == { r \in table : r.id # id }

Row(s) == dueRows[s][idx[s]]

SendEvent(row, result) == [ev |-> "send", id |-> row.id, msg |-> PushMessage(row), result |-> result]

DeleteEvent(row) == [ev |-> "delete", id |-> row.id, msg |-> PushMessage(row), result |-> Threw("")]

Pending == Threw("pending")

\* The cron trigger fires: scheduled() starts a sweep, which reads the clock
\* and selects the due rows.  With no due row it returns at once.
FetchDue(s) ==
    /\ pc[s] \in {"idle", "killed"}
    /\ \E rows \in Orderings(DueBefore(push_schedules, clock \div MsPerSecond)) :
          /\ dueRows' = [dueRows EXCEPT ![s] = rows]
          /\ pc' = [pc EXCEPT ![s] = IF rows = <<>> THEN "done" ELSE "send"]
          /\ idx' = [idx EXCEPT ![s] = IF rows = <<>> THEN 0 ELSE 1]
    /\ now' = [now EXCEPT ![s] = clock \div MsPerSecond]
    /\ log' = [log EXCEPT ![s] = <<>>]
    /\ UNCHANGED <<push_schedules, clock, last, crashes, senderVars, clientVars>>

\* A loop body that calls the sender without awaiting it: the POST is issued
\* and the loop goes straight on to the DELETE.
BeginSendUnawaited(s) ==
    /\ pc[s] = "send"
    /\ pc' = [pc EXCEPT ![s] = "delete"]
    /\ log' = [log EXCEPT ![s] = Append(@, SendEvent(Row(s), Pending))]
    /\ UNCHANGED <<push_schedules, clock, last, now, dueRows, idx, crashes, senderVars, clientVars>>

\* The loop body up to the await on fetch: the VAPID token and the encrypted
\* body are built and the POST is issued, or building them throws and the
\* catch clause is entered.
BeginSend(s) ==
    /\ pc[s] = "send"
    /\ IF ValidP256dh(Row(s).p256dh)
       THEN /\ pc' = [pc EXCEPT ![s] = "wait"]
            /\ log' = [log EXCEPT ![s] = Append(@, SendEvent(Row(s), Pending))]
       ELSE /\ pc' = [pc EXCEPT ![s] = "delete"]
            /\ log' = [log EXCEPT ![s] = Append(@, SendEvent(Row(s), Threw("key")))]
    /\ UNCHANGED <<push_schedules, clock, last, now, dueRows, idx, crashes, senderVars, clientVars>>

\* A loop without the try/catch: a rejected fetch ends the sweep.
EndSendUncaught(s, result) ==
    /\ pc[s] = "wait"
    /\ pc' = [pc EXCEPT ![s] = IF result.threw # "" THEN "done" ELSE "delete"]
    /\ log' = [log EXCEPT ![s] = [@ EXCEPT ![Len(@)].result = result]]
    /\ UNCHANGED <<push_schedules, clock, last, now, dueRows, idx, crashes, senderVars, clientVars>>

\* The await on fetch ends: a response, logged by the try block, or a
\* rejection, logged by the catch clause.  Either way the loop body goes on.
EndSend(s, result) ==
    /\ pc[s] = "wait"
    /\ pc' = [pc EXCEPT ![s] = "delete"]
    /\ log' = [log EXCEPT ![s] = [@ EXCEPT ![Len(@)].result = result]]
    /\ UNCHANGED <<push_schedules, clock, last, now, dueRows, idx, crashes, senderVars, clientVars>>

\* A loop that removes the row only when the push was delivered.
DeleteRowIfDelivered(s) ==
    /\ pc[s] = "delete"
    /\ IF log[s][Len(log[s])].result.success
       THEN /\ push_schedules' = DeleteWhereId(push_schedules, Row(s).id)
            /\ log' = [log EXCEPT ![s] = Append(@, DeleteEvent(Row(s)))]
       ELSE /\ push_schedules' = push_schedules
            /\ log' = log
    /\ IF idx[s] < Len(dueRows[s])
       THEN /\ idx' = [idx EXCEPT ![s] = @ + 1]
            /\ pc' = [pc EXCEPT ![s] = "send"]
       ELSE /\ idx' = idx
            /\ pc' = [pc EXCEPT ![s] = "done"]
    /\ UNCHANGED <<clock, last, now, dueRows, crashes, senderVars, clientVars>>

\* Remove after attempting: DELETE ... WHERE id = row.id, then the next row.
DeleteRow(s) ==
    /\ pc[s] = "delete"
    /\ push_schedules' = DeleteWhereId(push_schedules, Row(s).id)
    /\ log' = [log EXCEPT ![s] = Append(@, DeleteEvent(Row(s)))]
    /\ IF idx[s] < Len(dueRows[s])
       THEN /\ idx' = [idx EXCEPT ![s] = @ + 1]
            /\ pc' = [pc EXCEPT ![s] = "send"]
       ELSE /\ idx' = idx
            /\ pc' = [pc EXCEPT ![s] = "done"]
    /\ UNCHANGED <<clock, last, now, dueRows, crashes, senderVars, clientVars>>

\* The promise given to ctx.waitUntil settles; the invocation's locals are gone.
Finish(s) ==
    /\ pc[s] = "done"
    /\ pc' = [pc EXCEPT ![s] = "idle"]
    /\ now' = [now EXCEPT ![s] = 0]
    /\ dueRows' = [dueRows EXCEPT ![s] = <<>>]
    /\ idx' = [idx EXCEPT ![s] = 0]
    /\ log' = [log EXCEPT ![s] = <<>>]
    /\ UNCHANGED <<push_schedules, clock, last, crashes, senderVars, clientVars>>

\* The runtime kills a running invocation at one of its awaits (CrashSpec
\* only).  Nothing of it runs any more; what it had logged stays on record
\* until the next cron trigger starts a sweep.
Crash(s) ==
    /\ pc[s] \in {"send", "wait", "delete"}
    /\ crashes < MaxCrashes
    /\ crashes' = crashes + 1
    /\ pc' = [pc EXCEPT ![s] = "killed"]
    /\ UNCHANGED <<push_schedules, clock, last, now, dueRows, idx, log, senderVars, clientVars>>

\* ------------------------------ GET /health, GET /api/vapid-public-key ----

\* {ok: true, time: new Date().toISOString()}
HealthResponse(ms) == [ok |-> TRUE, time |-> DateAt(ms)]

GetHealth ==
    /\ last' = [op |-> "health", status |-> 200, hadRow |-> FALSE, changed |-> FALSE]
    /\ UNCHANGED <<push_schedules, clock, sweepVars, senderVars, clientVars>>

\* {publicKey: env.VAPID_PUBLIC_KEY}
VapidPublicKeyResponse == [publicKey |-> Vapid.publicKey]

GetVapidPublicKey ==
    /\ last' = [op |-> "vapid-public-key", status |-> 200, hadRow |-> FALSE, changed |-> FALSE]
    /\ UNCHANGED <<push_schedules, clock, sweepVars, senderVars, clientVars>>

\* ---------------------------------------------------------- the device ----

\* The app in the browser: the hook useNotifications, the reminder effect of
\* App and the handlers that change what the effect reads.  The device reads
\* the clock of the model and its time zone is UTC.
DayMs == 24 * 60 * 60 * MsPerSecond

NullDate == [kind |-> "missing", ms |-> 0]

\* new Date(NaN): getTime() is NaN and toISOString() throws a RangeError.
InvalidDate == [kind |-> "invalid", ms |-> 0]

NoSubscription == [endpoint |-> "", keys |-> [p256dh |-> "", auth |-> ""]]

\* sub.toJSON() of the subscription the browser's push manager gives.
DeviceSubscription == [endpoint |-> "e1", keys |-> [p256dh |-> "pA", auth |-> "aA"]]

DEFAULT_SETTINGS ==
    [averageCycleLength |-> 28, notificationsEnabled |-> FALSE, reminderDaysBefore |-> 2]

\* The periods a user logs: an id and a start date "yyyy-MM-dd", kept as the
\* number of its day (day 0 is 1970-01-01).  The two days are 26 and 25 days
\* before day 0, so that the reminder falls on day 0 or on day 1.
EntryIds == {"p1", "p2"}

StartDays == {-26, -25}

\* A request of the device to the push server: fetch(`${PUSH_SERVER_URL}...`).
SchedulePost(sub, title, date, body) ==
    [method |-> "POST", url |-> "/api/schedule", subscription |-> sub, endpoint |-> "",
     notifyAt |-> date, title |-> title, body |-> body]

ScheduleDelete(sub) ==
    [method |-> "DELETE", url |-> "/api/schedule", subscription |-> NoSubscription,
     endpoint |-> sub.endpoint, notifyAt |-> NullDate, title |-> "", body |-> ""]

\* A guard that lets a date equal to the clock through.
BeforeNow(date, nowMs) == date.kind = "date" /\ date.ms < nowMs

\* date.getTime() <= Date.now(): false for an invalid date (NaN).
NotAfterNow(date, nowMs) == date.kind = "date" /\ date.ms <= nowMs

\* What the awaited fetch of scheduleNotification may come to: a 2xx answer,
\* another answer with a JSON body, another answer whose body is no JSON, a
\* rejection.
FetchOutcomes == {"ok", "not ok", "not ok, no JSON", "rejected"}

\* The error raised inside the try block of scheduleNotification, if any.
RaisedInTry(date, outcome) ==
    CASE date.kind # "date" -> "RangeError"
      [] outcome = "rejected" -> "TypeError"
      [] outcome = "not ok, no JSON" -> "SyntaxError"
      [] OTHER -> ""

\* scheduleNotification(title, date, options): the requests it sends.
ScheduleNotificationSends(sub, nowMs, title, date, optionsBody) ==
    IF sub = NoSubscription THEN <<>>
    ELSE IF NotAfterNow(date, nowMs) THEN <<>>
    ELSE IF date.kind # "date" THEN <<>>
    ELSE <<SchedulePost(sub, title, date, OrElse(optionsBody, DefaultBody))>>

\* What the call leaves: the requests sent, the error its catch clause took,
\* and whether anything was thrown to the caller.  Before the try block the
\* call only reads the ref and compares two numbers; building the request,
\* the fetch and the reading of an error body are all inside it, and its
\* catch clause only logs.
ScheduleNotificationReturn(sub, nowMs, title, date, optionsBody, outcome) ==
    [fn |-> "scheduleNotification",
     sent |-> ScheduleNotificationSends(sub, nowMs, title, date, optionsBody),
     caught |-> IF sub = NoSubscription \/ NotAfterNow(date, nowMs)
                THEN "" ELSE RaisedInTry(date, outcome),
     threw |-> FALSE]

SetOf(seq) == { seq[i] : i \in DOMAIN seq }

\* A call of the hook's scheduleNotification.
ScheduleNotification(title, date, optionsBody, outcome) ==
    /\ ret' = ScheduleNotificationReturn(subscriptionRef, clock, title, date, optionsBody, outcome)
    /\ requests' = requests \cup SetOf(ret'.sent)
    /\ UNCHANGED <<permission, subscriptionRef, settings, entries>>
    /\ UNCHANGED <<push_schedules, clock, last, sweepVars, senderVars>>

\* cycle.nextPeriodDate: the start of the latest entry plus the cycle length.
NextPeriodDate(ents, sett) ==
    IF ents = {} THEN NullDate
    ELSE LET lastEntry == CHOOSE e \in ents : \A o \in ents : o.startDate <= e.startDate
         IN  DateAt((lastEntry.startDate + sett.averageCycleLength) * DayMs)

\* `Your period is expected in ${settings.reminderDaysBefore} days. Take care!`
ReminderBody(sett) == <<"Your period is expected in ", sett.reminderDaysBefore, " days. Take care!">>

\* The reminder effect of App, run after a render: the requests it sends.
ReminderEffectSends(perm, sub, sett, ents, nowMs) ==
    IF sett.notificationsEnabled /\ perm = "granted" /\ sub # NoSubscription
       /\ NextPeriodDate(ents, sett) # NullDate
    THEN LET reminderDate ==
                 DateAt(NextPeriodDate(ents, sett).ms - sett.reminderDaysBefore * DayMs)
         IN  IF reminderDate.ms > nowMs
             THEN ScheduleNotificationSends(sub, nowMs, "Period Coming Soon", reminderDate,
                                            ReminderBody(sett))
             ELSE <<>>
    ELSE <<>>

\* The app renders anew and its reminder effect runs on what the handler left.
Rendered(fn, first) ==
    /\ ret' = [fn |-> fn,
               sent |-> first \o ReminderEffectSends(permission', subscriptionRef', settings',
                                                     entries', clock),
               caught |-> "", threw |-> FALSE]
    /\ requests' = requests \cup SetOf(ret'.sent)
    /\ UNCHANGED <<push_schedules, clock, last, sweepVars, senderVars>>

\* requestPermission(): the user answers the prompt; once granted the push
\* manager gives the subscription, or fails.
RequestPermission(result, subscribed) ==
    /\ permission' = result
    /\ subscriptionRef' =
          IF result = "granted" /\ subscribed THEN DeviceSubscription ELSE subscriptionRef
    /\ UNCHANGED <<settings, entries>>
    /\ Rendered("requestPermission", <<>>)

\* unsubscribe(): the DELETE to the push server, then sub.unsubscribe().
Unsubscribe ==
    /\ subscriptionRef' = NoSubscription
    /\ UNCHANGED <<permission, settings, entries>>
    /\ Rendered("unsubscribe",
                IF subscriptionRef = NoSubscription THEN <<>> ELSE <<ScheduleDelete(subscriptionRef)>>)

\* The "Period reminders" switch of Settings, shown once permission is granted.
ToggleReminders ==
    /\ permission = "granted"
    /\ settings' = [settings EXCEPT !.notificationsEnabled = ~@]
    /\ UNCHANGED <<permission, subscriptionRef, entries>>
    /\ Rendered("toggleReminders", <<>>)

\* handleSaveEntry: the entry replaces the one of its id, or is added.
SaveEntry(entry) ==
    /\ entries' = { e \in entries : e.id # entry.id } \cup {entry}
    /\ UNCHANGED <<permission, subscriptionRef, settings>>
    /\ Rendered("saveEntry", <<>>)

\* handleDeleteEntry
DeleteEntry(id) ==
    /\ entries' = { e \in entries : e.id # id }
    /\ UNCHANGED <<permission, subscriptionRef, settings>>
    /\ Rendered("deleteEntry", <<>>)

\* ------------------------------------------------------ specifications ----

Init ==
    /\ push_schedules = {}
    /\ clock = StartMs
    /\ last = [op |-> "none", status |-> 0, hadRow |-> FALSE, changed |-> FALSE]
    /\ pc = [s \in Sweeps |-> "idle"]
    /\ now = [s \in Sweeps |-> 0]
    /\ dueRows = [s \in Sweeps |-> <<>>]
    /\ idx = [s \in Sweeps |-> 0]
    /\ log = [s \in Sweeps |-> <<>>]
    /\ crashes = 0
    /\ rng = 0
    /\ call = NoCall
    /\ used = {}
    /\ permission = "default"
    /\ subscriptionRef = NoSubscription
    /\ settings = DEFAULT_SETTINGS
    /\ entries = {}
    /\ requests = {}
    /\ ret = [fn |-> "none", sent |-> <<>>, caught |-> "", threw |-> FALSE]

Sweep(s) ==
    \/ FetchDue(s)
    \/ BeginSend(s)
    \/ \E result \in FetchResults : EndSend(s, result)
    \/ DeleteRow(s)
    \/ Finish(s)

Next ==
    \/ \E req \in ScheduleRequests : PostSchedule(req)
    \/ \E endpoint \in DeleteEndpoints : DeleteSchedule(endpoint)
    \/ Tick
    \/ Sweep(1)

Spec == Init /\ [][Next]_vars

\* Two cron invocations at overlapping times, one subscription scheduling.
OverlapRequests == { MkRequest("e1", PayloadA, n) : n \in GoodNotifyAts }

OverlapNext ==
    \/ \E req \in OverlapRequests : PostSchedule(req)
    \/ Tick
    \/ \E s \in Sweeps : Sweep(s)

OverlapSpec == Init /\ [][OverlapNext]_vars

\* Sweeps that the runtime may kill at an await.  The cron trigger keeps
\* firing and an awaited promise that settles is resumed, so the steps of
\* the sweep are weakly fair; a kill is not.
CrashRequests ==
    { MkRequest("e1", PayloadA, n) : n \in GoodNotifyAts } \cup { MkRequest("e2", PayloadB, DateAt(1500)) }

CrashNext ==
    \/ \E req \in CrashRequests : PostSchedule(req)
    \/ \E endpoint \in Endpoints : DeleteSchedule(endpoint)
    \/ Tick
    \/ Sweep(1)
    \/ Crash(1)

CrashSpec == Init /\ [][CrashNext]_vars /\ WF_vars(Sweep(1))

\* The HTTP handlers alone: every request in every order, and the clock.
HttpNext ==
    \/ \E req \in ScheduleRequests : PostSchedule(req)
    \/ \E endpoint \in DeleteEndpoints : DeleteSchedule(endpoint)
    \/ Tick

HttpSpec == Init /\ [][HttpNext]_vars

\* One sweep, the requests of two subscriptions, and status polls.
StatusNext ==
    \/ \E req \in CrashRequests : PostSchedule(req)
    \/ \E endpoint \in Endpoints : DeleteSchedule(endpoint)
    \/ \E endpoint \in DeleteEndpoints : PostStatus(endpoint)
    \/ Tick
    \/ Sweep(1)

StatusSpec == Init /\ [][StatusNext]_vars

\* One sweep whose push service answers at the edges of the 2xx range.
SendNext ==
    \/ \E req \in CrashRequests : PostSchedule(req)
    \/ Tick
    \/ FetchDue(1)
    \/ BeginSend(1)
    \/ \E result \in EdgeResults : EndSend(1, result)
    \/ DeleteRow(1)
    \/ Finish(1)

SendSpec == Init /\ [][SendNext]_vars

\* The same sweep with the fairness the code gives: the cron trigger fires
\* and every step of the sweep's own code is taken once it can be.  The end
\* of the await on fetch is not among them: fetch is called without a signal
\* or timeout, so it settles only when the push service answers or the
\* connection fails.
HangSpec ==
    /\ Init /\ [][SendNext]_vars
    /\ WF_vars(FetchDue(1)) /\ WF_vars(BeginSend(1))
    /\ WF_vars(DeleteRow(1)) /\ WF_vars(Finish(1))

\* The sender and the encryptor called on their own, at any clock value.
SenderNext ==
    \/ \E subscription \in Subscriptions, payload \in PayloadStrings :
          CallEncryptPayload(subscription, payload)
    \/ \E subscription \in Subscriptions, payload \in PushPayloads :
          SendPushNotification(subscription, payload)
    \/ Tick

SenderSpec == Init /\ [][SenderNext]_vars

\* Every route of the server and one sweep: two subscriptions scheduling,
\* one of them with either of two payloads, and two requests that are
\* rejected.
StoreRequests ==
    CrashRequests
    \cup { MkRequest("e2", PayloadA, DateAt(1500)) }
    \cup { [SomeRequest EXCEPT !.auth = ""], [SomeRequest EXCEPT !.notifyAt = BadNotifyAt] }

StoreNext ==
    \/ \E req \in StoreRequests : PostSchedule(req)
    \/ \E endpoint \in DeleteEndpoints : DeleteSchedule(endpoint)
    \/ \E endpoint \in DeleteEndpoints : PostStatus(endpoint)
    \/ GetHealth
    \/ GetVapidPublicKey
    \/ Tick
    \/ Sweep(1)

StoreSpec == Init /\ [][StoreNext]_vars

\* The device alone: what the user does in the app, calls of the hook's
\* scheduleNotification with dates before, at and after the clock, and the
\* clock.
Titles == {"tA"}

Dates == {DateAt(StartMs), DateAt(1500), DateAt(MaxClockMs), InvalidDate}

OptionsBodies == {""}

ClientNext ==
    \/ \E result \in {"granted", "denied", "default"}, subscribed \in BOOLEAN :
          RequestPermission(result, subscribed)
    \/ Unsubscribe
    \/ ToggleReminders
    \/ \E id \in EntryIds, day \in StartDays : SaveEntry([id |-> id, startDate |-> day])
    \/ \E id \in EntryIds : DeleteEntry(id)
    \/ \E title \in Titles, date \in Dates, optionsBody \in OptionsBodies, outcome \in FetchOutcomes :
          ScheduleNotification(title, date, optionsBody, outcome)
    \/ Tick

ClientSpec == Init /\ [][ClientNext]_vars

\* ================================================================ claims ====

RowsFor(table, endpoint) == { r \in table : r.endpoint = endpoint }

\* C1: whatever POSTs, DELETEs and sweeps have run, no two rows of
\* push_schedules share an id and no two rows share an endpoint.
C1_OneRowPerSubscription ==
    \A r1, r2 \in push_schedules :
        (r1.id = r2.id \/ r1.endpoint = r2.endpoint) => r1 = r2

\* A re-submitted schedule replaced a row while another subscription has one.
C1_Witness ==
    /\ last.op = "schedule" /\ last.status = 200 /\ last.hadRow /\ last.changed
    /\ Cardinality(push_schedules) = 2

\* What a row must hold to come from request req alone.
FromRequest(r, req) ==
    /\ r.endpoint = req.endpoint
    /\ r.p256dh = req.p256dh
    /\ r.auth = req.auth
    /\ r.notify_at * MsPerSecond <= req.notifyAt.ms
    /\ req.notifyAt.ms < (r.notify_at + 1) * MsPerSecond
    /\ r.title = (IF req.title = "" THEN DefaultTitle ELSE req.title)
    /\ r.body = (IF req.body = "" THEN DefaultBody ELSE req.body)

\* C2: after an accepted POST /api/schedule for an endpoint, also one that
\* already had a row with other values, the table holds exactly one row for
\* that endpoint and each of its fields is the one of this request.
C2_FullReplacement ==
    [][\A req \in ScheduleRequests :
          (PostSchedule(req) /\ last'.status = 200) =>
              /\ Cardinality(RowsFor(push_schedules', req.endpoint)) = 1
              /\ \A r \in RowsFor(push_schedules', req.endpoint) : FromRequest(r, req)]_vars

\* A second accepted POST for an endpoint changed the row it found, and the
\* row now stored carries the default title.
C2_Witness ==
    /\ last.op = "schedule" /\ last.status = 200 /\ last.hadRow /\ last.changed
    /\ \E r \in push_schedules : r.title = DefaultTitle /\ r.p256dh = "p?"

\* C8 as claimed: a POST /api/schedule that writes a row has a notifyAt
\* strictly later than the server clock at the time of the request.
C8_OnlyFutureRowsWritten ==
    [][\A req \in ScheduleRequests :
          (PostSchedule(req) /\ last'.status = 200) => req.notifyAt.ms > clock]_vars

\* The requests C9 is about: a part of the subscription is missing, notifyAt
\* is missing, or notifyAt is no date.
Malformed ==
    { req \in ScheduleRequests :
        \/ req.endpoint = "" \/ req.p256dh = "" \/ req.auth = ""
        \/ req.notifyAt.kind \in {"missing", "invalid"} }

\* C9: a malformed POST /api/schedule is answered 400 and leaves the table
\* as it was.
C9_MalformedRejected ==
    [][\A req \in Malformed :
          PostSchedule(req) =>
              /\ last'.status = 400
              /\ push_schedules' = push_schedules]_vars

\* A request was answered 400 while the table held rows.
C9_Witness ==
    /\ last.op = "schedule" /\ last.status = 400 /\ ~last.changed
    /\ Cardinality(push_schedules) = 2

\* C10: DELETE /api/schedule for an endpoint answers 200, leaves no row for
\* the endpoint, changes nothing when there was none, and a second DELETE
\* after it changes nothing.
C10_IdempotentDelete ==
    [][\A endpoint \in Endpoints :
          DeleteSchedule(endpoint) =>
              /\ last'.status = 200
              /\ RowsFor(push_schedules', endpoint) = {}
              /\ (RowsFor(push_schedules, endpoint) = {} => push_schedules' = push_schedules)
              /\ { r \in push_schedules' : r.endpoint # endpoint } = push_schedules']_vars

\* A DELETE for an endpoint without a row was answered 200 while the table
\* held another endpoint's row.
C10_Witness ==
    /\ last.op = "delete" /\ last.status = 200 /\ ~last.hadRow /\ ~last.changed
    /\ push_schedules # {}

\* ------------------------------------------------- claims on the sweep ----

Range(f) == { f[i] : i \in DOMAIN f }

SnapshotIds(s) == { dueRows[s][i].id : i \in DOMAIN dueRows[s] }

\* The send attempts sweep s has logged for the row with this id.
Sends(l, id) == { i \in DOMAIN l : l[i].ev = "send" /\ l[i].id = id }

Settled(result) == result # Pending

\* The four ways a send attempt ends.
Outcome(result) ==
    CASE result.threw = "key" -> "malformed key"
      [] result.threw = "network" -> "network error"
      [] result.threw = "" /\ result.success -> "2xx"
      [] result.threw = "" /\ ~result.success -> "non-2xx"
      [] OTHER -> "none"

C4_DeletedAfterEveryOutcome ==
    [][\A s \in Sweeps :
          /\ \A i \in DOMAIN log[s] :
                (log[s][i].ev = "send" /\ Settled(log[s][i].result)) =>
                    /\ Outcome(log[s][i].result) \in {"2xx", "non-2xx", "network error", "malformed key"}
                    /\ IF i = Len(log[s])
                       THEN pc[s] = "delete" /\ Row(s).id = log[s][i].id
                       ELSE log[s][i + 1].ev = "delete" /\ log[s][i + 1].id = log[s][i].id
          /\ (pc[s] = "delete" /\ pc'[s] # "delete") =>
                /\ log'[s] = Append(log[s], DeleteEvent(Row(s)))
                /\ \A r \in push_schedules' : r.id # Row(s).id]_vars

\* A sweep ended after an attempt that failed on a malformed key and one
\* that failed on the network; neither row is stored any more.
C4_Witness ==
    \E s \in Sweeps :
        /\ pc[s] = "done"
        /\ Len(log[s]) = 4
        /\ { Outcome(log[s][1].result), Outcome(log[s][3].result) } = {"malformed key", "network error"}
        /\ push_schedules = {}

DueStored(endpoint) ==
    \E r \in push_schedules : r.endpoint = endpoint /\ r.notify_at * MsPerSecond <= clock

\* A sweep has made its send attempt for the endpoint's row and has not yet
\* deleted it.
Attempted(endpoint) ==
    \E s \in Sweeps : pc[s] \in {"wait", "delete"} /\ Row(s).endpoint = endpoint

SendingThenDeleting(s, row) ==
    /\ pc[s] \in {"wait", "delete"}
    /\ Row(s) = row
    /\ log[s][Len(log[s])].result.threw \notin {"key"}

\* C7 as claimed: two sweeps are never both between the send and the delete
\* of the same row.
C7_NoRowSentByTwoSweeps ==
    \A s1, s2 \in Sweeps :
        s1 # s2 => ~(\E r \in Range(dueRows[s1]) : SendingThenDeleting(s1, r) /\ SendingThenDeleting(s2, r))

\* ------------------------------------- claims on the status handler ----

\* What a status answer must hold to report row r.
Reports(resp, r) ==
    /\ resp.notifyAt.kind = "date"
    /\ resp.notifyAt.ms = r.notify_at * MsPerSecond
    /\ resp.title = r.title
    /\ resp.body = r.body

\* A status poll for the endpoint answers by the table alone and leaves it.
AnswersByStore(endpoint) ==
    /\ Cardinality(StatusResponses(push_schedules, endpoint)) = 1
    /\ \A resp \in StatusResponses(push_schedules, endpoint) :
          /\ resp.scheduled <=> RowsFor(push_schedules, endpoint) # {}
          /\ resp.scheduled => \E r \in RowsFor(push_schedules, endpoint) : Reports(resp, r)
          /\ ~resp.scheduled => resp = NotScheduled
    /\ push_schedules' = push_schedules

\* A sweep has finished its send attempt for the endpoint's row, and the row
\* stored for the endpoint is still that row.
AttemptFinished(endpoint) ==
    \E s \in Sweeps :
        /\ pc[s] = "delete"
        /\ Row(s).endpoint = endpoint
        /\ Row(s) \in push_schedules
        /\ Settled(log[s][Len(log[s])].result)

\* C11 as claimed: a status poll answers scheduled=true exactly when a row is
\* stored for the endpoint, reporting that row, never changes the table, and
\* answers scheduled=false once the row has had its delivery attempt.
C11_NotScheduledOnceAttempted ==
    [][\A endpoint \in Endpoints :
          PostStatus(endpoint) =>
              /\ AnswersByStore(endpoint)
              /\ AttemptFinished(endpoint) =>
                    \A resp \in StatusResponses(push_schedules, endpoint) : ~resp.scheduled]_vars

\* C11, amended: a status poll answers scheduled=true exactly when a row is
\* stored for the endpoint, reporting that row's notifyAt, title and body,
\* and scheduled=false exactly when none is; it never changes the table.  A
\* stored row for an endpoint goes away only by a DELETE for the endpoint or
\* by the delete a sweep issues after its send attempt for that row.
C11_StatusReflectsStore ==
    [][\A endpoint \in Endpoints :
          /\ PostStatus(endpoint) => AnswersByStore(endpoint)
          /\ (RowsFor(push_schedules, endpoint) # {} /\ RowsFor(push_schedules', endpoint) = {}) =>
                \/ DeleteSchedule(endpoint)
                \/ \E s \in Sweeps :
                      /\ pc[s] = "delete" /\ pc'[s] # "delete"
                      /\ Row(s).endpoint = endpoint
                      /\ log[s][Len(log[s])].ev = "send"
                      /\ log[s][Len(log[s])].id = Sha256Hex(endpoint)
                      /\ Settled(log[s][Len(log[s])].result)]_vars

\* A status poll found the row of an endpoint whose push the sweep has sent
\* and whose delete it has not issued yet.
C11_Witness ==
    /\ last.op = "status" /\ last.status = 200 /\ last.hadRow
    /\ pc[1] = "delete"
    /\ push_schedules = {Row(1)}
    /\ log[1][Len(log[1])].result = SendResult(201)

\* ------------------------------------------- claims on the due query ----

\* The clock values, in seconds, a due query may be made at.
Times == 0..(MaxClockMs \div MsPerSecond)

\* C12: the due set a sweep reads at clock value T (seconds) is exactly the
\* set of stored rows with notify_at <= T, each once; and the due query at T
\* right after an accepted upsert with notifyAt <= T returns exactly one row
\* with the id derived from that subscription's endpoint, the row upserted.
C12_DueSetIsRowsUpToNow ==
    [][/\ \A s \in Sweeps :
             (pc[s] \in {"idle", "killed"} /\ pc'[s] \in {"send", "done"}) =>
                 /\ now'[s] * MsPerSecond <= clock
                 /\ clock < (now'[s] + 1) * MsPerSecond
                 /\ Range(dueRows'[s]) = { r \in push_schedules : r.notify_at <= now'[s] }
                 /\ Len(dueRows'[s]) = Cardinality(Range(dueRows'[s]))
       /\ \A req \in CrashRequests :
             (PostSchedule(req) /\ last'.status = 200) =>
                 \A T \in Times :
                     IF req.notifyAt.ms < (T + 1) * MsPerSecond
                     THEN /\ Cardinality({ r \in DueBefore(push_schedules', T) :
                                             r.id = Sha256Hex(req.endpoint) }) = 1
                          /\ \A r \in DueBefore(push_schedules', T) :
                                r.id = Sha256Hex(req.endpoint) => FromRequest(r, req)
                     ELSE \A r \in DueBefore(push_schedules', T) :
                                r.id # Sha256Hex(req.endpoint)]_vars

\* A sweep started right after an accepted schedule: its snapshot holds a row
\* with notify_at equal to the sweep's now, and a later row stayed out of it.
C12_Witness ==
    /\ last.op = "schedule" /\ last.status = 200
    /\ pc[1] = "send" /\ log[1] = <<>>
    /\ \E i \in DOMAIN dueRows[1] : dueRows[1][i].notify_at = now[1]
    /\ \E r \in push_schedules : r.notify_at > now[1] /\ r \notin Range(dueRows[1])

\* ------------------------------------------------ claims on the row id ----

\* C13: the id POST /api/schedule computes depends on the endpoint alone.
\* Two accepted requests get the same id exactly when they name the same
\* endpoint, whatever their keys, notifyAt, title and body; and the row an
\* accepted request writes has the id of a row stored earlier, at any clock
\* value, exactly when that row is of the same endpoint.
C13_IdFromEndpointAlone ==
    [][/\ \A req1, req2 \in WellFormed :
             (NewRow(req1).id = NewRow(req2).id) <=> (req1.endpoint = req2.endpoint)
       /\ \A req \in WellFormed :
             PostSchedule(req) =>
                 \A old \in push_schedules, new \in RowsFor(push_schedules', req.endpoint) :
                     (old.id = new.id) <=> (old.endpoint = req.endpoint)]_vars

\* At a later clock value a request with other keys and another notifyAt
\* replaced the row of its endpoint, next to the row of another endpoint.
C13_Witness ==
    /\ last.op = "schedule" /\ last.status = 200 /\ last.hadRow /\ last.changed
    /\ clock > StartMs
    /\ \E r1, r2 \in push_schedules :
          /\ r1.endpoint # r2.endpoint /\ r1.id # r2.id
          /\ r1.p256dh # r2.p256dh /\ r1.notify_at # r2.notify_at

\* ---------------------------------------------------- claims on retry ----

\* Sweep s has made a send attempt for the row that failed, and has not yet
\* deleted the row.
FailedAttempt(s, row) ==
    /\ pc[s] = "delete"
    /\ Row(s) = row
    /\ Settled(log[s][Len(log[s])].result)
    /\ ~log[s][Len(log[s])].result.success

\* C14 as claimed: a sweep calls the sender at most once for a row, and a
\* row whose delivery failed is not sent again: no sweep starts a send for a
\* row for which the attempt of another sweep has already failed.
C14_NoRetry ==
    [][\A s \in Sweeps :
          /\ \A id \in SnapshotIds(s) : Cardinality(Sends(log'[s], id)) <= 1
          /\ (pc[s] = "send" /\ pc'[s] \in {"wait", "delete"}) =>
                \A s1 \in Sweeps \ {s} : ~FailedAttempt(s1, Row(s))]_vars

\* --------------------------------------- claims on the sender's outcome ----

Delivered(result) == result.threw = "" /\ result.status \in 200..299

Rejected(result) == result.threw = "" /\ result.status \notin 200..299

Unreachable(result) == result.threw = "network"

\* How many of the three outcomes the result is.
OutcomesOf(result) ==
    Cardinality({ o \in {"delivered", "rejected", "unreachable"} :
                    \/ o = "delivered" /\ Delivered(result)
                    \/ o = "rejected" /\ Rejected(result)
                    \/ o = "unreachable" /\ Unreachable(result) })

\* The send attempts that have ended.
EndedSends == { e \in UNION { Range(log[s]) : s \in Sweeps } : e.ev = "send" /\ Settled(e.result) }

\* C15 as claimed: every delivery attempt that has ended is exactly one of
\* delivered (status in 200..299), rejected (another status) and unreachable
\* (network error), and success is reported exactly for delivered.
C15_ThreeOutcomes ==
    \A e \in EndedSends :
        /\ OutcomesOf(e.result) = 1
        /\ e.result.success <=> Delivered(e.result)

\* C15, amended: a delivery attempt whose HTTP request was issued ends in
\* exactly one of delivered, rejected and unreachable; an attempt for a
\* subscription whose key material is malformed ends before any request, in
\* none of the three, by throwing; success is reported exactly for delivered.
C15_ThreeOutcomesOnceRequested ==
    \A e \in EndedSends :
        /\ IF ValidP256dh(e.msg.p256dh)
           THEN OutcomesOf(e.result) = 1
           ELSE OutcomesOf(e.result) = 0 /\ e.result.threw = "key"
        /\ e.result.success <=> Delivered(e.result)

\* A sweep ended whose first attempt was answered 300 and whose second
\* attempt threw on the key.
C15_Witness ==
    /\ pc[1] = "done"
    /\ Len(log[1]) = 4
    /\ Rejected(log[1][1].result) /\ log[1][1].result.status = 300
    /\ log[1][3].result.threw = "key"

\* ---------------------------------------------- claims on termination ----

\* C16 as claimed: a sweep that has issued the HTTP POST for a row moves on
\* also when the push service never answers: it comes to delete the row and
\* returns to idle.
C16_SweepAlwaysCompletes == (pc[1] = "wait") ~> (pc[1] = "idle")

\* ------------------------------------------- claims on the VAPID token ----

\* C17: the token built for a delivery has the header {typ: JWT, alg: ES256};
\* its aud claim is the scheme and the host of the subscription endpoint and
\* nothing of its path or query; its exp claim is the clock of the call in
\* whole seconds plus 12 hours; its sub claim is the configured contact; and
\* the token is signed over that header and those claims and is the one sent
\* in the Authorization header.
C17_VapidTokenClaims ==
    call.fn = "sendPushNotification" =>
        LET t == call.jwt.authorization.t
            u == Url(call.subscription.endpoint)
        IN  /\ t.header = [typ |-> "JWT", alg |-> "ES256"]
            /\ t.payload.aud = <<u.protocol, "//", u.host>>
            /\ (t.payload.exp - 12 * 60 * 60) * MsPerSecond <= call.at
            /\ call.at < (t.payload.exp - 12 * 60 * 60 + 1) * MsPerSecond
            /\ t.payload.sub = Vapid.email
            /\ t.signature.over = <<t.header, t.payload>>
            /\ t.signature.key = Vapid.privateKey
            /\ call.request # NoRequest => call.request.headers.Authorization = call.jwt.authorization

\* A push was sent, after the clock had moved, to the endpoint whose URL has
\* a path: the token in its Authorization header names "https://fcm.example".
C17_Witness ==
    /\ call.fn = "sendPushNotification"
    /\ call.at > StartMs
    /\ call.request # NoRequest
    /\ Url(call.request.url).pathname = "/send/1"
    /\ call.request.headers.Authorization.t.payload.aud = <<"https:", "//", "fcm.example">>

\* ------------------------------------------ claims on the encryptor ----

\* The receiving side (RFC 8291, RFC 8188), which the browser runs: it reads
\* the header of the record, derives the keys from its own private key, the
\* auth secret and the sender's public key found in the header, checks and
\* removes the tag, and strips the padding delimiter.
ClientKeyLabel == <<87, 101, 98, 80, 117, 115, 104, 58, 32, 105, 110, 102, 111, 0>>

ClientCekLabel == <<67, 111, 110, 116, 101, 110, 116, 45, 69, 110, 99, 111, 100, 105, 110, 103, 58, 32, 97, 101, 115, 49, 50, 56, 103, 99, 109, 0>>

ClientNonceLabel == <<67, 111, 110, 116, 101, 110, 116, 45, 69, 110, 99, 111, 100, 105, 110, 103, 58, 32, 110, 111, 110, 99, 101, 0>>

ClientHeader(buffer) ==
    [salt |-> SubSeq(buffer, 1, 16),
     rs |-> buffer[17] * 16777216 + buffer[18] * 65536 + buffer[19] * 256 + buffer[20],
     idlen |-> buffer[21],
     keyid |-> SubSeq(buffer, 22, 21 + buffer[21]),
     record |-> SubSeq(buffer, 22 + buffer[21], Len(buffer))]

\* AES-GCM decryption of the stand-in cipher: the data, if the tag is right.
ClientOpen(key, iv, record) ==
    LET n == Len(record) - 16
        data == [i \in 1..n |->
                    (record[i] + 512 - key[((i - 1) % Len(key)) + 1]
                               - iv[((i - 1) % Len(iv)) + 1]) % 256] \o <<>>
    IN  IF n >= 0 /\ AesGcmEncrypt(key, iv, data) = record
        THEN [ok |-> TRUE, data |-> data]
        ELSE [ok |-> FALSE, data |-> <<>>]

\* The record the client gets out of the buffer, still with its padding.
ClientRecord(buffer, privateScalar, p256dh, auth) ==
    IF Len(buffer) < 21 \/ Len(buffer) < 21 + buffer[21] THEN [ok |-> FALSE, data |-> <<>>]
    ELSE
    LET h == ClientHeader(buffer)
    IN  IF h.idlen # 65 \/ h.keyid[1] # 4 \/ Len(h.record) > h.rs
        THEN [ok |-> FALSE, data |-> <<>>]
        ELSE
        LET secret == EcdhBits(privateScalar, h.keyid[2])
            info == ClientKeyLabel \o P256dhBytes(p256dh) \o h.keyid
            ikm == Hkdf(AuthBytes(auth), secret, info, 32)
            cek == Hkdf(h.salt, ikm, ClientCekLabel, 16)
            nonce == Hkdf(h.salt, ikm, ClientNonceLabel, 12)
        IN  ClientOpen(cek, nonce, h.record)

\* The last byte that is not 0, which must be the delimiter 2 of a last
\* record, ends the plaintext.
RECURSIVE StripPadding(_)
StripPadding(data) ==
    IF data = <<>> THEN [ok |-> FALSE, data |-> <<>>]
    ELSE IF data[Len(data)] = 0 THEN StripPadding(SubSeq(data, 1, Len(data) - 1))
    ELSE IF data[Len(data)] = 2 THEN [ok |-> TRUE, data |-> SubSeq(data, 1, Len(data) - 1)]
    ELSE [ok |-> FALSE, data |-> <<>>]

ClientDecrypt(buffer, privateScalar, p256dh, auth) ==
    LET opened == ClientRecord(buffer, privateScalar, p256dh, auth)
    IN  IF opened.ok THEN StripPadding(opened.data) ELSE opened

\* What the subscriber of the last call gets out of its buffer.
Received == ClientRecord(call.out.encrypted, SubscriberPrivate,
                         call.subscription.keys.p256dh, call.subscription.keys.auth)

\* C18: the buffer the encryptor returns is 16 salt bytes, the bytes
\* 00 00 10 00, one byte 65, the 65 bytes of the ephemeral public key, then
\* the ciphertext; the ciphertext encrypts the plaintext followed by the one
\* byte 2, so the buffer is 86 + (length of the plaintext + 1) + 16 bytes long.
C18_RecordLayout ==
    (call.fn # "none" /\ ~call.out.threw) =>
        LET buffer == call.out.encrypted
        IN  /\ Len(buffer) = 86 + (Len(call.plaintext) + 1) + 16
            /\ Len(call.out.salt) = 16
            /\ SubSeq(buffer, 1, 16) = call.out.salt
            /\ SubSeq(buffer, 17, 20) = <<0, 0, 16, 0>>
            /\ buffer[21] = 65
            /\ Len(call.out.localPublicKey) = 65
            /\ SubSeq(buffer, 22, 86) = call.out.localPublicKey
            /\ Received.ok
            /\ Received.data = call.plaintext \o <<2>>

\* The encryptor returned the buffer of a plaintext of three bytes, one of
\* them a two-byte character.
C18_Witness ==
    /\ call.fn = "encryptPayload" /\ ~call.out.threw
    /\ call.plaintext = <<65, 195, 169>>
    /\ Len(call.out.encrypted) = 106

\* The largest payload the round trip is claimed for, in bytes.
RealisticPushSize == 2 * 1024

CiphertextOf(buffer) == SubSeq(buffer, 87, Len(buffer))

\* C20: every encryption uses a salt and an ephemeral key that no encryption
\* before it used; and an encryption of the plaintext the encryption before
\* it encrypted, to the same subscriber, differs from it in the salt, in the
\* ephemeral public key and in the ciphertext.
C20_FreshKeyAndSalt ==
    [][(rng' # rng) =>
          /\ ~call'.out.threw
          /\ \A u \in used :
                /\ u.salt # call'.out.salt
                /\ u.localPublicKey # call'.out.localPublicKey
          /\ call'.again =>
                /\ call.out.salt # call'.out.salt
                /\ call.out.localPublicKey # call'.out.localPublicKey
                /\ CiphertextOf(call.out.encrypted) # CiphertextOf(call'.out.encrypted)
                /\ Len(CiphertextOf(call.out.encrypted)) = Len(CiphertextOf(call'.out.encrypted))]_vars

\* The third encryption in a row encrypted what the second had encrypted, to
\* the same subscriber; three salts and three keys were used.
C20_Witness ==
    /\ call.again /\ ~call.out.threw
    /\ rng = 6
    /\ Cardinality(used) = 3
    /\ Cardinality({ u.salt : u \in used }) = 3
    /\ Cardinality({ u.localPublicKey : u \in used }) = 3

\* ------------------------------------------ claims on the row's lifecycle ----

\* The stored row with this id, as a set: the row, or nothing.
RowWithId(table, id) == { r \in table : r.id = id }

\* Sweep s takes the step that issues its DELETE, after an attempt for the
\* row of this id that has ended.
SweepDeletes(s, id) ==
    /\ pc[s] = "delete" /\ pc'[s] # "delete"
    /\ Row(s).id = id
    /\ log[s][Len(log[s])].ev = "send"
    /\ log[s][Len(log[s])].id = id
    /\ Settled(log[s][Len(log[s])].result)
    /\ push_schedules' = DeleteWhereId(push_schedules, id)

\* An accepted POST /api/schedule naming the row's endpoint puts row r there.
ReplacedBy(r) ==
    \E req \in StoreRequests :
        /\ PostSchedule(req) /\ last'.status = 200
        /\ req.endpoint = r.endpoint
        /\ FromRequest(r, req)

\* C22: a row, which is the store's entry under its id, leaves the store
\* only by a DELETE /api/schedule naming its endpoint or by the delete of a
\* sweep that has first made a send attempt for the row of that id; a row
\* appears, or any of its fields changes, only by an accepted POST
\* /api/schedule for its endpoint, and then every field is the request's;
\* health, vapid-public-key, status and a request answered 400 leave the
\* store as it was.
C22_RowLifecycle ==
    [][/\ \A r \in push_schedules :
             RowWithId(push_schedules', r.id) = {} =>
                 \/ DeleteSchedule(r.endpoint) /\ last'.status = 200
                 \/ \E s \in Sweeps : SweepDeletes(s, r.id)
       /\ \A r \in push_schedules' :
             r \notin push_schedules =>
                 /\ ReplacedBy(r)
                 /\ Cardinality(RowsFor(push_schedules', r.endpoint)) = 1
       /\ (GetHealth \/ GetVapidPublicKey) => push_schedules' = push_schedules
       /\ \A endpoint \in DeleteEndpoints :
             (PostStatus(endpoint) \/ (DeleteSchedule(endpoint) /\ last'.status = 400)) =>
                 push_schedules' = push_schedules
       /\ \A req \in StoreRequests :
             (PostSchedule(req) /\ last'.status = 400) => push_schedules' = push_schedules]_vars

\* The health route was called after a sweep had pushed one row and removed
\* it, while the row of the other subscription stayed.
C22_Witness ==
    /\ last.op = "health"
    /\ pc[1] = "done"
    /\ Len(log[1]) = 2
    /\ log[1][1].result = SendResult(201)
    /\ RowWithId(push_schedules, log[1][1].id) = {}
    /\ push_schedules # {}

\* ------------------------------------- claims on the order within a sweep ----

\* The steps of the state machine IDLE, FETCH_DUE, (SEND, DELETE)*, IDLE: a
\* sweep at "send" is about to call the sender for a row, at "wait" its POST
\* is in flight, at "delete" the attempt has ended and the DELETE is next.
SweepOrder ==
    { <<"idle", "send">>, <<"idle", "done">>,
      <<"send", "wait">>, <<"send", "delete">>, <<"wait", "delete">>,
      <<"delete", "send">>, <<"delete", "done">>, <<"done", "idle">> }

\* The POSTs of a sweep's log that are in flight.
InFlight(l) == { i \in DOMAIN l : l[i].ev = "send" /\ l[i].result = Pending }

\* What a sweep has logged is, row after row of its snapshot, the send
\* attempt for the row and then, the attempt ended, the delete of that row.
OneAfterAnother(l, rows) ==
    \A i \in DOMAIN l :
        IF i % 2 = 1
        THEN /\ (i + 1) \div 2 \in DOMAIN rows
             /\ l[i].ev = "send" /\ l[i].id = rows[(i + 1) \div 2].id
        ELSE /\ l[i] = DeleteEvent(rows[i \div 2])
             /\ Settled(l[i - 1].result)

\* C23: a sweep goes through IDLE, FETCH_DUE, then SEND and DELETE for each
\* due row in turn, then IDLE; at most one POST of the sweep is in flight at
\* any time; the delete of a row comes only after its send attempt has
\* ended; and the send for the next row starts only after the delete of the
\* row before it.
C23_OneRowAtATime ==
    [][\A s \in Sweeps :
          /\ pc'[s] # pc[s] => <<pc[s], pc'[s]>> \in SweepOrder
          /\ OneAfterAnother(log'[s], dueRows'[s])
          /\ Cardinality(InFlight(log'[s])) <= 1
          /\ InFlight(log'[s]) # {} <=> pc'[s] = "wait"
          /\ pc'[s] = "wait" => InFlight(log'[s]) = {2 * idx'[s] - 1}
          /\ pc'[s] = "send" => Len(log'[s]) = 2 * (idx'[s] - 1)
          /\ pc'[s] = "delete" =>
                /\ Len(log'[s]) = 2 * idx'[s] - 1
                /\ Settled(log'[s][Len(log'[s])].result)
          /\ pc'[s] = "done" => Len(log'[s]) = 2 * Len(dueRows'[s])]_vars

\* The POST for the second of two due rows is in flight: the POST for the
\* first was answered and the first row's delete is logged.
C23_Witness ==
    /\ pc[1] = "wait" /\ idx[1] = 2
    /\ Len(log[1]) = 3
    /\ log[1][1].result.threw = "" /\ Settled(log[1][1].result)
    /\ log[1][2].ev = "delete" /\ log[1][2].id = log[1][1].id
    /\ InFlight(log[1]) = {3}

\* ------------------------------ claims on requests made during a sweep ----

\* C24 as claimed: a sweep never removes a row that is not due: every row
\* its DELETE takes out of the store has a notify_at that is not later than
\* the clock, so a row re-scheduled to a later time while the sweep runs is
\* still stored when the sweep ends.
C24_SweepRemovesOnlyDueRows ==
    [][\A s \in Sweeps :
          (pc[s] = "delete" /\ pc'[s] # "delete") =>
              \A r \in push_schedules \ push_schedules' :
                  r.notify_at * MsPerSecond <= clock]_vars

\* C25 as claimed: once DELETE /api/schedule for an endpoint has returned
\* success, no push is sent to the endpoint until it is scheduled again.  An
\* endpoint a sweep has in its snapshot and has not yet handled is without a
\* stored row only after such a DELETE with no accepted schedule since, so
\* the claim is: a sweep issues the POST for a row only while a row is stored
\* for the row's endpoint.
C25_NoPushAfterDelete ==
    [][\A s \in Sweeps :
          (pc[s] = "send" /\ pc'[s] = "wait") =>
              HasRow(push_schedules, Row(s).endpoint)]_vars

\* The message of the POST sweep s issues in this step.
Sent(s) == log'[s][Len(log'[s])].msg

\* C26 as claimed: the message a sweep sends for an endpoint has url "/" and
\* the title and body of the row stored for the endpoint at the moment of the
\* send, and is encrypted to the keys of that row; never the title, body or
\* keys of a schedule that has been replaced.
C26_SendsTheStoredRow ==
    [][\A s \in Sweeps :
          (pc[s] = "send" /\ pc'[s] = "wait") =>
              /\ Sent(s).url = "/"
              /\ Sent(s).endpoint = Row(s).endpoint
              /\ \A r \in RowsFor(push_schedules, Row(s).endpoint) :
                    /\ Sent(s).title = r.title /\ Sent(s).body = r.body
                    /\ Sent(s).p256dh = r.p256dh /\ Sent(s).auth = r.auth]_vars

\* ------------------------------------- claims on the addressing of rows ----

\* C27: every stored row has the id that is the hash of its own endpoint, so
\* that for every endpoint the rows DELETE /api/schedule removes (WHERE
\* endpoint), the rows the status route finds (WHERE endpoint) and the rows a
\* sweep's delete removes (WHERE id) are the same single row, if any; and
\* the delete a sweep issues for the row it read for an endpoint removes no
\* row of another endpoint.
C27_IdAddressesTheEndpointsRow ==
    [][/\ \A r \in push_schedules' : r.id = Sha256Hex(r.endpoint)
       /\ \A endpoint \in Endpoints :
             /\ Cardinality(RowsFor(push_schedules', endpoint)) <= 1
             /\ RowsFor(push_schedules', endpoint) = RowWithId(push_schedules', Sha256Hex(endpoint))
             /\ DeleteWhereEndpoint(push_schedules', endpoint)
                    = DeleteWhereId(push_schedules', Sha256Hex(endpoint))
             /\ StatusResponses(push_schedules', endpoint) =
                    IF RowWithId(push_schedules', Sha256Hex(endpoint)) = {}
                    THEN {NotScheduled}
                    ELSE { Scheduled(r) : r \in RowWithId(push_schedules', Sha256Hex(endpoint)) }
       /\ \A s \in Sweeps :
             (pc[s] = "delete" /\ pc'[s] # "delete") =>
                 /\ Row(s).id = Sha256Hex(Row(s).endpoint)
                 /\ \A r \in push_schedules \ push_schedules' : r.endpoint = Row(s).endpoint
                 /\ \A r \in push_schedules :
                       r.endpoint # Row(s).endpoint => r \in push_schedules']_vars

\* A sweep has removed the row it read for one endpoint while the row of the
\* other endpoint, scheduled during the sweep, is stored.
C27_Witness ==
    /\ pc[1] = "done"
    /\ Len(log[1]) = 2
    /\ log[1][2].ev = "delete" /\ log[1][2].id = Sha256Hex("e1")
    /\ RowsFor(push_schedules, "e1") = {}
    /\ RowsFor(push_schedules, "e2") # {}

\* ------------------------------------------- claims on what stays as is ----

\* The rows of the endpoints other than this one.
RowsOfOthers(table, endpoint) == { r \in table : r.endpoint # endpoint }

\* C28: POST /api/schedule and DELETE /api/schedule for an endpoint leave
\* the rows of every other endpoint as they were; a step of a sweep adds and
\* alters no row and removes none but the row stored under the id of the
\* snapshot row it is at, so every row whose id is not in its due snapshot
\* stays as it was; and a sweep that finds no due row makes no send attempt
\* and no change to the store.
C28_OnlyItsOwnRow ==
    [][/\ \A req \in StoreRequests :
             PostSchedule(req) =>
                 RowsOfOthers(push_schedules', req.endpoint) = RowsOfOthers(push_schedules, req.endpoint)
       /\ \A endpoint \in DeleteEndpoints :
             DeleteSchedule(endpoint) =>
                 RowsOfOthers(push_schedules', endpoint) = RowsOfOthers(push_schedules, endpoint)
       /\ \A s \in Sweeps :
             pc'[s] # pc[s] =>
                 /\ push_schedules' \subseteq push_schedules
                 /\ \A r \in push_schedules \ push_schedules' :
                       /\ pc[s] = "delete"
                       /\ r.id = Row(s).id
                       /\ r.id \in SnapshotIds(s)
                 /\ (pc[s] = "idle" /\ DueBefore(push_schedules, clock \div MsPerSecond) = {}) =>
                       /\ pc'[s] = "done"
                       /\ dueRows'[s] = <<>> /\ log'[s] = <<>>
                       /\ push_schedules' = push_schedules
                 /\ (pc[s] = "done" /\ dueRows[s] = <<>>) =>
                       /\ pc'[s] = "idle"
                       /\ log[s] = <<>> /\ log'[s] = <<>>
                       /\ push_schedules' = push_schedules]_vars

\* A sweep found no due row and ended without an attempt; the row that is
\* due later is stored.
C28_Witness ==
    /\ pc[1] = "done"
    /\ dueRows[1] = <<>> /\ log[1] = <<>>
    /\ \E r \in push_schedules : r.notify_at > now[1]

\* ------------------------------------- claims on the notifyAt reported ----

\* C29: the notifyAt an accepted POST /api/schedule answers with is the
\* notifyAt the status route answers with for the same endpoint right after
\* it; both are the requested notifyAt rounded down to a whole second; and
\* the time stored is never later than the time requested.
C29_ReportedNotifyAt ==
    [][\A req \in StoreRequests :
          (PostSchedule(req) /\ last'.status = 200) =>
              /\ ScheduleResponse(req).ok
              /\ ScheduleResponse(req).notifyAt.kind = "date"
              /\ \A resp \in StatusResponses(push_schedules', req.endpoint) :
                    /\ resp.scheduled
                    /\ resp.notifyAt = ScheduleResponse(req).notifyAt
              /\ ScheduleResponse(req).notifyAt.ms % MsPerSecond = 0
              /\ ScheduleResponse(req).notifyAt.ms <= req.notifyAt.ms
              /\ req.notifyAt.ms < ScheduleResponse(req).notifyAt.ms + MsPerSecond
              /\ \A r \in RowsFor(push_schedules', req.endpoint) :
                    r.notify_at * MsPerSecond <= req.notifyAt.ms]_vars

\* A schedule for half past the first second was accepted: the answer and
\* the status both say the first second.
C29_Witness ==
    /\ last.op = "schedule" /\ last.status = 200 /\ last.changed
    /\ ScheduleResponse(MkRequest("e1", PayloadA, DateAt(1500))).notifyAt = DateAt(1000)
    /\ StatusResponses(push_schedules, "e1")
          = { Scheduled(NewRow(MkRequest("e1", PayloadA, DateAt(1500)))) }
    /\ \A resp \in StatusResponses(push_schedules, "e1") : resp.notifyAt = DateAt(1000)

\* --------------------------------------------------- claims on the device ----

\* C21: the application is entirely on the device: whatever is done on it
\* (granting notifications, switching reminders on, logging or deleting a
\* period, scheduling a reminder, unsubscribing), no request to a server has
\* been sent.
C21_NothingSentToAServer == requests = {}

\* The date is a date and strictly later than the clock of the device.
StrictlyLater(date) == date.kind = "date" /\ date.ms > clock

\* C30: scheduleNotification sends no request when the hook holds no push
\* subscription or when the date is not strictly later than the clock of the
\* device; in every other case it sends exactly one request, a POST
\* /api/schedule with the subscription, the date and the title; and whatever
\* becomes of the request, nothing is thrown to the caller.
C30_OnePostOrNone ==
    [][\A title \in Titles, date \in Dates, optionsBody \in OptionsBodies, outcome \in FetchOutcomes :
          ScheduleNotification(title, date, optionsBody, outcome) =>
              /\ ~ret'.threw
              /\ IF subscriptionRef = NoSubscription \/ ~StrictlyLater(date)
                 THEN ret'.sent = <<>> /\ requests' = requests
                 ELSE /\ Len(ret'.sent) = 1
                      /\ ret'.sent[1].method = "POST"
                      /\ ret'.sent[1].url = "/api/schedule"
                      /\ ret'.sent[1].subscription = subscriptionRef
                      /\ ret'.sent[1].subscription # NoSubscription
                      /\ ret'.sent[1].notifyAt = date
                      /\ ret'.sent[1].title = title
                      /\ requests' = requests \cup {ret'.sent[1]}]_vars

\* A call sent its one POST, for half a second after the clock, and the
\* request was rejected: the error was caught and nothing thrown.
C30_Witness ==
    /\ ret.fn = "scheduleNotification"
    /\ Len(ret.sent) = 1
    /\ ret.sent[1].notifyAt = DateAt(1500) /\ clock = StartMs
    /\ ret.caught = "TypeError" /\ ~ret.threw

====
